---- MODULE Spec2Model ----
(***************************************************************************)
(* A model of the grappler optimizer of openvino_tensorflow:               *)
(* OVTFOptimizer::Optimize and OVTFOptimizer::FreshIndex                   *)
(* (openvino_tensorflow/grappler/ovtf_optimizer.cc).                       *)
(*                                                                         *)
(* Strings the code takes apart (node names, fetch names, the value of     *)
(* OPENVINO_TF_DISABLE) are sequences of one-character strings.            *)
(* Only data edges are modelled; every operation type of the input family  *)
(* has at most one output.                                                 *)
(***************************************************************************)
EXTENDS Integers, Sequences, FiniteSets, TLC

\* ------------------------------------------------------------------ bounds

\* Optimize invocations one behaviour of Spec starts, one after the other.
MaxRuns == 2
\* Optimize invocations one behaviour of ConcSpec starts on each thread.
MaxCalls == 1

\* ----------------------------------------------------------------- strings

\* std::string::find(":") stored in an int: the position, or npos as -1.
Find(f, ch) ==
  IF \E i \in 1..Len(f) : f[i] = ch
  THEN (CHOOSE i \in 1..Len(f) : f[i] = ch /\ \A j \in 1..(i - 1) : f[j] # ch) - 1
  ELSE 0 - 1

\* std::string::substr(pos, n); a negative n is what the int -1 becomes as a
\* size_t: npos, "to the end of the string".
Substr(f, pos, n) ==
  IF n < 0 \/ pos + n > Len(f)
  THEN SubSeq(f, pos + 1, Len(f))
  ELSE SubSeq(f, pos + 1, pos + n)

\* The decimal digit of a small index, for generated names.
Digit(i) == <<"0", "1", "2", "3", "4", "5", "6", "7", "8", "9">>[(i % 10) + 1]

\* Ascending enumeration of a finite set of integers.
RECURSIVE SortedSeq(_)
SortedSeq(S) ==
  IF S = {} THEN <<>>
  ELSE LET m == CHOOSE x \in S : \A y \in S : x <= y
       IN <<m>> \o SortedSeq(S \ {m})

Range(s) == {s[i] : i \in 1..Len(s)}

\* ------------------------------------------------------------ the op registry

SourceName == <<"_", "S", "O", "U", "R", "C", "E">>
SinkName == <<"_", "S", "I", "N", "K">>
EncapsulateOp == "_nGraphEncapsulate"

\* Operation types whose output is a reference (aliasing) type.
IsRefOp(op) == op = "VariableV2"
\* Pure pass-through operation types.
IsPassThroughOp(op) == op \in {"Identity", "IdentityN"}
\* What the capability oracle (ocm) reports as executable by the backend.
OracleSupports(op) == op \in {"Add", "Identity"}

\* ------------------------------------------------------- GraphDef <-> Graph

NoCluster == 0 - 1

NodeDef(name, op, input, nout) ==
  [name |-> name, op |-> op, input |-> input, nout |-> nout,
   marked |-> FALSE, cluster |-> NoCluster, members |-> <<>>]

DefNames(gd) == {gd.node[i].name : i \in 1..Len(gd.node)}
DefNode(gd, n) == gd.node[CHOOSE i \in 1..Len(gd.node) : gd.node[i].name = n]

\* ConvertGraphDefToGraph succeeds on a GraphDef whose node names are unique
\* and whose inputs name an existing output of an existing node.
WellFormed(gd) ==
  /\ \A i, j \in 1..Len(gd.node) : gd.node[i].name = gd.node[j].name => i = j
  /\ \A i \in 1..Len(gd.node) : \A k \in 1..Len(gd.node[i].input) :
       LET p == gd.node[i].input[k]
       IN p[1] \in DefNames(gd) /\ p[2] >= 0 /\ p[2] < DefNode(gd, p[1]).nout

\* The in-memory Graph: the nodes in id order, _SOURCE and _SINK first, the
\* attributes by name, and the data edges with their slots.
ConvertGraphDefToGraph(gd) ==
  [order |-> <<SourceName, SinkName>> \o [i \in 1..Len(gd.node) |-> gd.node[i].name],
   nd |-> [n \in DefNames(gd) \cup {SourceName, SinkName} |->
             IF n \in {SourceName, SinkName}
             THEN [op |-> "NoOp", nout |-> 0, marked |-> FALSE,
                   cluster |-> NoCluster, members |-> <<>>]
             ELSE LET d == DefNode(gd, n)
                  IN [op |-> d.op, nout |-> d.nout, marked |-> d.marked,
                      cluster |-> d.cluster, members |-> d.members]],
   edges |-> UNION {{[src |-> gd.node[i].input[k][1], so |-> gd.node[i].input[k][2],
                      dst |-> gd.node[i].name, di |-> k - 1] :
                        k \in 1..Len(gd.node[i].input)} : i \in 1..Len(gd.node)},
   processed |-> gd.processed]

IsOp(n) == n \notin {SourceName, SinkName}
\* graph.op_nodes(), in id order
OpNodes(g) == SelectSeq(g.order, IsOp)
Index(g, n) == CHOOSE i \in 1..Len(g.order) : g.order[i] = n
InEdges(g, n) == {e \in g.edges : e.dst = n}

\* Graph::ToGraphDef: the op nodes in id order, each with its inputs in slot
\* order; _SOURCE and _SINK are not written.
ToGraphDef(g) ==
  [node |-> [i \in 1..Len(OpNodes(g)) |->
               LET n == OpNodes(g)[i]
                   ins == InEdges(g, n)
                   slots == SortedSeq({e.di : e \in ins})
               IN [name |-> n, op |-> g.nd[n].op,
                   input |-> [k \in 1..Len(slots) |->
                                LET e == CHOOSE x \in ins : x.di = slots[k]
                                IN <<e.src, e.so>>],
                   nout |-> g.nd[n].nout, marked |-> g.nd[n].marked,
                   cluster |-> g.nd[n].cluster, members |-> g.nd[n].members]],
   processed |-> g.processed]

\* ------------------------------------------------------------ AddIdentityN

RECURSIVE NewName(_, _)
\* Graph::NewName: a name no node of the graph bears.
NewName(g, prefix) ==
  IF prefix \notin DOMAIN g.nd THEN prefix ELSE NewName(g, prefix \o <<"_">>)

Renamed(old, new, n) == IF n = old THEN new ELSE n

\* One fetch node n gets its pass-through node: the IdentityN node takes the
\* fetch name, the original node is renamed and feeds it, output by output.
AddOneIdentityN(g, n) ==
  LET new == NewName(g, n \o <<"_", "o", "v", "t", "f">>)
      attrs == g.nd[n]
  IN [order |-> [i \in 1..Len(g.order) |-> Renamed(n, new, g.order[i])] \o <<n>>,
      nd |-> [m \in DOMAIN g.nd \cup {new} |->
                IF m = new THEN attrs
                ELSE IF m = n
                THEN [op |-> "IdentityN", nout |-> attrs.nout, marked |-> FALSE,
                      cluster |-> NoCluster, members |-> <<>>]
                ELSE g.nd[m]],
      edges |-> {[src |-> Renamed(n, new, e.src), so |-> e.so,
                  dst |-> Renamed(n, new, e.dst), di |-> e.di] : e \in g.edges}
                \cup {[src |-> new, so |-> i, dst |-> n, di |-> i] :
                        i \in 0..(attrs.nout - 1)},
      processed |-> g.processed]

RECURSIVE AddIdentityNTo(_, _, _)
AddIdentityNTo(g, todo, names) ==
  IF todo = <<>> THEN g
  ELSE LET n == Head(todo)
       IN IF n \in names /\ g.nd[n].nout > 0 /\ ~IsRefOp(g.nd[n].op)
          THEN AddIdentityNTo(AddOneIdentityN(g, n), Tail(todo), names)
          ELSE AddIdentityNTo(g, Tail(todo), names)

\* AddIdentityN(&graph, nodes_to_add_identity_to): a fetch node with no
\* output, or with an output of a reference type, gets no pass-through node.
AddIdentityN(g, names) == AddIdentityNTo(g, OpNodes(g), names)

\* ------------------------------------------------------------------ marking

\* FC.MarkSupportedNodes() after FC.SetDisabledOps(disabled): the checker is
\* given the graph and the disabled operation types, nothing else.
MarkSupportedNodes(g, disabled) ==
  {n \in Range(OpNodes(g)) : OracleSupports(g.nd[n].op) /\ g.nd[n].op \notin disabled}

\* The loop over nodes_list: every node the checker returned gets the
\* attribute _ovtf_marked_for_clustering = true.
MarkNodes(g, nodes_list) ==
  [g EXCEPT !.nd = [n \in DOMAIN g.nd |->
                      IF n \in nodes_list THEN [g.nd[n] EXCEPT !.marked = TRUE]
                      ELSE g.nd[n]]]

\* GetAttributeSetters(): the operation types with a registered setter.
AttributeSetters == {"Identity", "Custom"}

\* it = set_attributes_map.find(node->type_string()); it->second(node) for
\* the nodes of nodes_list whose type has a setter.
SetAttributes(g, nodes_list) ==
  {n \in nodes_list : g.nd[n].op \in AttributeSetters}

\* ---------------------------------------------------------------- clusters

Labels(g) == [n \in DOMAIN g.nd |-> g.nd[n].cluster]
WithLabels(g, cl) ==
  [g EXCEPT !.nd = [n \in DOMAIN g.nd |-> [g.nd[n] EXCEPT !.cluster = cl[n]]]]

\* The nodes collapsed together with n: its cluster, or n alone.
Group(cl, n) ==
  IF cl[n] = NoCluster THEN {n} ELSE {m \in DOMAIN cl : cl[m] = cl[n]}
Succ(g, S) == {e.dst : e \in {x \in g.edges : x.src \in S}}
Expand(cl, S) == UNION {Group(cl, n) : n \in S}

RECURSIVE Closure(_, _, _, _)
\* What is reachable from R in the collapsed graph without entering excl.
Closure(g, cl, R, excl) ==
  LET more == Expand(cl, Succ(g, R) \ excl) \ R
  IN IF more = {} THEN R ELSE Closure(g, cl, R \cup more, excl)

\* Mutant: only the paths through a single outside node are seen.
ReachViaOneHop(g, cl, X, Y) == Succ(g, Succ(g, X) \ (X \cup Y)) \cap Y # {}

\* A path of the collapsed graph from X to Y through a node outside both.
ReachVia(g, cl, X, Y) ==
  LET first == Expand(cl, Succ(g, X) \ (X \cup Y))
  IN Succ(g, Closure(g, cl, first, X \cup Y)) \cap Y # {}

\* The fixed traversal order of the edges: by producer, then by consumer.
EdgeKey(g, e) == (Index(g, e.src) * 100 + Index(g, e.dst)) * 100 + e.so * 10 + e.di

Mergeable(g, cl, e) ==
  /\ g.nd[e.src].marked /\ g.nd[e.dst].marked
  /\ cl[e.src] # NoCluster /\ cl[e.dst] # NoCluster /\ cl[e.src] # cl[e.dst]
  /\ g.nd[e.src].nout > 0 /\ ~IsRefOp(g.nd[e.src].op)
  /\ ~ReachVia(g, cl, Group(cl, e.src), Group(cl, e.dst))

Min(a, b) == IF a <= b THEN a ELSE b

RECURSIVE MergeLoop(_, _)
MergeLoop(g, cl) ==
  LET M == {e \in g.edges : Mergeable(g, cl, e)}
  IN IF M = {} THEN cl
     ELSE LET e == CHOOSE x \in M : \A y \in M : EdgeKey(g, x) <= EdgeKey(g, y)
              k == Min(cl[e.src], cl[e.dst])
          IN MergeLoop(g, [n \in DOMAIN cl |->
                             IF cl[n] \in {cl[e.src], cl[e.dst]} THEN k ELSE cl[n]])

\* AssignClusters(&graph): every marked node starts as its own cluster; two
\* clusters joined by a data edge are merged unless the merged cluster would
\* depend on itself through a node outside it.
AssignClusters(g) ==
  WithLabels(g, MergeLoop(g, [n \in DOMAIN g.nd |->
                                IF g.nd[n].marked THEN Index(g, n)
                                ELSE g.nd[n].cluster]))

ClusterIds(g) ==
  {g.nd[n].cluster : n \in {m \in DOMAIN g.nd : g.nd[m].marked}} \ {NoCluster}
Members(g, k) == {n \in DOMAIN g.nd : g.nd[n].marked /\ g.nd[n].cluster = k}

Viable(g, k) ==
  /\ \E n \in Members(g, k) : ~IsPassThroughOp(g.nd[n].op)
  /\ ~ReachVia(g, Labels(g), Members(g, k), Members(g, k))

\* Mutant: the pass-through members lose their label, whatever their cluster.
DeassignPassThroughNodes(g) ==
  WithLabels(g, [n \in DOMAIN g.nd |->
                   IF g.nd[n].marked /\ IsPassThroughOp(g.nd[n].op)
                   THEN NoCluster ELSE g.nd[n].cluster])

\* DeassignClusters(&graph): a cluster that is not viable loses its label on
\* every member.
DeassignClusters(g) ==
  WithLabels(g, [n \in DOMAIN g.nd |->
                   IF g.nd[n].marked /\ g.nd[n].cluster # NoCluster
                      /\ ~Viable(g, g.nd[n].cluster)
                   THEN NoCluster ELSE g.nd[n].cluster])

\* ------------------------------------------------------------ encapsulation

\* The fused node's name: unique by the pass index and the cluster.
FusedName(idx, k) == <<"e", "n", "c", "_", Digit(idx), "_", Digit(k)>>

RECURSIVE Distinct(_)
\* A sequence without its repetitions, first occurrences kept.
Distinct(s) ==
  IF s = <<>> THEN <<>>
  ELSE LET r == Distinct(SubSeq(s, 1, Len(s) - 1))
       IN IF s[Len(s)] \in Range(r) THEN r ELSE Append(r, s[Len(s)])

RECURSIVE EdgeSeq(_, _)
\* A set of edges as a sequence, in the fixed traversal order.
EdgeSeq(g, E) ==
  IF E = {} THEN <<>>
  ELSE LET e == CHOOSE x \in E : \A y \in E : EdgeKey(g, x) <= EdgeKey(g, y)
       IN <<e>> \o EdgeSeq(g, E \ {e})

MemberEdgeKey(g, e) == (Index(g, e.dst) * 10 + e.di) * 100
RECURSIVE InputSeq(_, _)
\* The edges entering the cluster, member by member, then slot by slot.
InputSeq(g, E) ==
  IF E = {} THEN <<>>
  ELSE LET e == CHOOSE x \in E : \A y \in E : MemberEdgeKey(g, x) <= MemberEdgeKey(g, y)
       IN <<e>> \o InputSeq(g, E \ {e})

Port(e) == <<e.src, e.so>>
PosIn(s, x) == CHOOSE i \in 1..Len(s) : s[i] = x

\* The external input signature: the distinct (producer, slot) read from
\* outside the cluster.
InputSignature(g, M) ==
  LET es == InputSeq(g, {e \in g.edges : e.dst \in M /\ e.src \notin M})
  IN Distinct([i \in 1..Len(es) |-> Port(es[i])])

\* Mutant: one output per consuming edge instead of one per distinct output.
OutputSignaturePerEdge(g, M) ==
  LET es == EdgeSeq(g, {e \in g.edges : e.src \in M /\ e.dst \notin M})
  IN [i \in 1..Len(es) |-> Port(es[i])]

\* The external output signature: the distinct (member, slot) read from
\* outside the cluster.
OutputSignature(g, M) ==
  LET es == EdgeSeq(g, {e \in g.edges : e.src \in M /\ e.dst \notin M})
  IN Distinct([i \in 1..Len(es) |-> Port(es[i])])

\* One cluster replaced by its fused node.
EncapsulateOne(g, idx, k) ==
  LET M == Members(g, k)
      F == FusedName(idx, k)
      ins == InputSignature(g, M)
      outs == OutputSignature(g, M)
      NotMember(n) == n \notin M
  IN [order |-> Append(SelectSeq(g.order, NotMember), F),
      nd |-> [n \in (DOMAIN g.nd \ M) \cup {F} |->
                IF n = F
                THEN [op |-> EncapsulateOp, nout |-> Len(outs), marked |-> FALSE,
                      cluster |-> NoCluster,
                      members |-> SelectSeq(g.order, LAMBDA n2 : n2 \in M)]
                ELSE g.nd[n]],
      edges |-> {e \in g.edges : e.src \notin M /\ e.dst \notin M}
                \cup {[src |-> ins[i][1], so |-> ins[i][2], dst |-> F, di |-> i - 1] :
                        i \in 1..Len(ins)}
                \cup {[src |-> F, so |-> PosIn(outs, Port(e)) - 1,
                       dst |-> e.dst, di |-> e.di] :
                        e \in {x \in g.edges : x.src \in M /\ x.dst \notin M}},
      processed |-> g.processed]

RECURSIVE EncapsulateAll(_, _, _)
EncapsulateAll(g, idx, ks) ==
  IF ks = <<>> THEN g
  ELSE EncapsulateAll(EncapsulateOne(g, idx, Head(ks)), idx, Tail(ks))

\* EncapsulateClusters(&graph, idx, m_config_map): every surviving cluster,
\* in ascending order, becomes one fused node; the graph is then marked as
\* processed.
EncapsulateClusters(g, idx) ==
  [EncapsulateAll(g, idx, SortedSeq(ClusterIds(g))) EXCEPT !.processed = TRUE]

\* The fused nodes' names, which the cluster manager keeps.
FusedNodes(g) == {n \in DOMAIN g.nd : g.nd[n].op = EncapsulateOp}

\* util::IsAlreadyProcessed(&graph)
IsAlreadyProcessed(g) == g.processed

\* ------------------------------------------------------------- the inputs

Letters == <<"a", "b", "c", "d">>
Nm(i) == <<Letters[i]>>
NumOutputs(op) == IF op = "NoOp" THEN 0 ELSE 1
Pairs(n) == {p \in (1..n) \X (1..n) : p[1] < p[2]}

\* The inputs of node j: its producers among the earlier nodes, in order.
ProducersSeq(j, E) ==
  LET P == SortedSeq({i \in 1..(j - 1) : <<i, j>> \in E})
  IN [k \in 1..Len(P) |-> <<Nm(P[k]), 0>>]

\* A GraphDef of Len(ops) nodes in topological order with the edges E.
BuildDef(ops, E) ==
  [node |-> [j \in 1..Len(ops) |->
               NodeDef(Nm(j), ops[j], ProducersSeq(j, E), NumOutputs(ops[j]))],
   processed |-> FALSE]

\* Three nodes; only the last may be an operation without a data output or
\* with a reference output.
Family3 ==
  {BuildDef(<<x, y, z>>, E) :
     x \in {"Add", "Custom", "Identity"}, y \in {"Add", "Custom", "Identity"},
     z \in {"Add", "Custom", "NoOp", "VariableV2"}, E \in SUBSET Pairs(3)}

\* Four nodes, supported or not, with every set of edges.
Family4 ==
  {BuildDef(ops, E) : ops \in [1..4 -> {"Add", "Custom"}], E \in SUBSET Pairs(4)}

\* A GraphDef whose node b reads a node that does not exist.
DanglingDef ==
  [node |-> <<NodeDef(Nm(1), "Add", <<>>, 1),
              NodeDef(Nm(2), "Add", <<<<Nm(4), 0>>>>, 1)>>,
   processed |-> FALSE]

FamilySmall ==
  {BuildDef(<<"Add", "Add", "Add">>, {<<1, 2>>, <<2, 3>>}),
   BuildDef(<<"Add", "Custom", "Add">>, {<<1, 2>>, <<2, 3>>}),
   BuildDef(<<"Identity", "Custom", "Add">>, {<<1, 2>>, <<1, 3>>}),
   DanglingDef}

\* The caller's metadata (feed, fetch, keep_ops, init_ops of the GrapplerItem)
\* together with api::GetDisabledOps().
Meta(feed, fetch, keep, init, dis) ==
  [feed |-> feed, fetch |-> fetch, keep_ops |-> keep, init_ops |-> init,
   disabled |-> dis]
Metas ==
  {Meta({}, {}, {}, {}, {}),
   Meta({}, {<<"c", ":", "0">>}, {}, {}, {}),
   Meta({Nm(1)}, {<<"c">>, <<"b", ":", "0">>}, {Nm(2)}, {Nm(1)}, {}),
   Meta({}, {<<"c", ":", "0">>}, {Nm(1)}, {}, {"Add"})}
MetasSmall ==
  {Meta({}, {}, {}, {}, {}),
   Meta({Nm(1)}, {<<"c", ":", "0">>}, {Nm(2)}, {}, {})}

\* The values of OPENVINO_TF_DISABLE: unset (getenv returns nullptr) or set.
Unset == [set |-> FALSE, val |-> <<>>]
SetTo(v) == [set |-> TRUE, val |-> v]
EnvValues ==
  {Unset, SetTo(<<>>), SetTo(<<"1">>), SetTo(<<"0">>), SetTo(<<"1", "0">>),
   SetTo(<<"1", "x">>)}

\* What may fail for a reason outside the graph: the estimator's
\* initialisation, and the phases that return a Status.
Faults == {"none", "estimator", "identity", "assign", "deassign", "encapsulate"}

\* ------------------------------------------------------------------- state

\* Threads of the process that may call Optimize; Main runs the invocations
\* of Spec.
NThreads == 3
Threads == 1..NThreads
Main == 1

VARIABLES
  env,                \* the environment variable OPENVINO_TF_DISABLE
  api_enabled,        \* api::IsEnabled()
  backend_ok,         \* whether BackendManager::GetBackendName succeeds
  disabled_ops,       \* api::GetDisabledOps()
  fault,              \* the phase that fails for a reason outside the graph
  s_serial_counter,   \* OVTFOptimizer::s_serial_counter
  mutex,              \* s_serial_counter_mutex: its holder, 0 when free
  cache,              \* the clusters NGraphClusterManager keeps
  pc,                 \* each thread's position in Optimize
  reg,                \* each thread's read of the counter inside FreshIndex
  idx,                \* each thread's local idx
  calls,              \* invocations each thread has started (ConcSpec)
  acquired,           \* the lock acquisitions in order, with the index returned
  meta,               \* the GrapplerItem's feed, fetch, keep_ops and init_ops
  graph_def0,         \* the caller's first GraphDef
  input,              \* item.graph of the running invocation
  from_prev,          \* whether input is the previous invocation's output
  graph,              \* the local Graph
  ovtf_not_enabled,
  already_processed,
  nodes_to_preserve,
  nodes_to_add_identity_to,
  output,             \* the caller's *output: whether written, and what
  status,             \* what Optimize returned: "", "OK", "error", "thrown"
  phases,             \* the steps the running invocation has executed
  dump,               \* the graph at each DumpTFGraph stage
  runs,               \* invocations finished
  prev_out,           \* the output of the last invocation that wrote one
  prev_run,           \* the input, index and dumps of that invocation
  indexed,            \* finished invocations that reached "int idx = FreshIndex()"
  what,               \* the message of the runtime_error Optimize threw
  encap_config,       \* the map EncapsulateClusters received
  attributes_set,     \* the nodes an attribute setter was applied to
  m_config_map,       \* OVTFOptimizer::m_config_map
  config,             \* the parameter map of the config last given to Init
  m_graph_def,        \* OVTFGraphIterator::m_graph_def
  m_nodes,            \* OVTFGraphIterator::m_nodes
  node_index,         \* OVTFGraphIterator::node_index
  loop,               \* the caller's position in its traversal loop
  decoded             \* the nodes get_decoder has returned in this traversal

cfgVars == <<env, api_enabled, backend_ok, disabled_ops, fault, meta, graph_def0>>
counterVars == <<s_serial_counter, mutex, reg, idx, acquired>>
runVars == <<input, from_prev, graph, ovtf_not_enabled, already_processed,
             nodes_to_preserve, nodes_to_add_identity_to, output, status,
             phases, dump, what, encap_config, attributes_set>>
histVars == <<runs, prev_out, prev_run, indexed>>
iterVars == <<m_graph_def, m_nodes, node_index, loop, decoded>>
optVars == <<m_config_map, config>>
vars == <<cfgVars, counterVars, runVars, histVars, cache, pc, calls,
          optVars, iterVars>>

NoGraph == [order |-> <<>>, nd |-> <<>>, edges |-> {}, processed |-> FALSE]
EmptyDef == [node |-> <<>>, processed |-> FALSE]
Unwritten == [written |-> FALSE, gd |-> EmptyDef]
NoDump == [unmarked |-> <<>>, marked |-> <<>>, clustered |-> <<>>,
           declustered |-> <<>>, encapsulated |-> <<>>]
NoRun == [input |-> EmptyDef, idx |-> 0 - 1, dump |-> NoDump]
NoConfig == <<"none">>

\* No OVTFGraphIterator has been constructed.
NoIterator ==
  /\ m_graph_def = EmptyDef
  /\ m_nodes = <<>>
  /\ node_index = 0
  /\ loop = "none"
  /\ decoded = <<>>

InitOptimizer ==
  /\ s_serial_counter = 0
  /\ mutex = 0
  /\ cache = {}
  /\ pc = [t \in Threads |-> "idle"]
  /\ reg = [t \in Threads |-> 0]
  /\ idx = [t \in Threads |-> 0]
  /\ calls = [t \in Threads |-> 0]
  /\ acquired = <<>>
  /\ input = EmptyDef
  /\ from_prev = FALSE
  /\ graph = NoGraph
  /\ ovtf_not_enabled = FALSE
  /\ already_processed = FALSE
  /\ nodes_to_preserve = {}
  /\ nodes_to_add_identity_to = {}
  /\ output = Unwritten
  /\ status = ""
  /\ phases = <<>>
  /\ dump = NoDump
  /\ runs = 0
  /\ prev_out = Unwritten
  /\ prev_run = NoRun
  /\ indexed = 0
  /\ what = ""
  /\ encap_config = NoConfig
  /\ attributes_set = {}
  /\ m_config_map = <<>>
  /\ config = <<>>

InitCommon == InitOptimizer /\ NoIterator

\* Every three-node graph with every metadata, the pass enabled and nothing
\* failing.
InitStructural ==
  /\ graph_def0 \in Family3
  /\ \E m \in Metas : meta = m /\ disabled_ops = m.disabled
  /\ env = Unset /\ api_enabled = TRUE /\ backend_ok = TRUE /\ fault = "none"

\* A few graphs under every configuration and every failure.
InitConfig ==
  /\ graph_def0 \in FamilySmall
  /\ \E m \in MetasSmall : meta = m /\ disabled_ops = m.disabled
  /\ env \in EnvValues /\ api_enabled \in BOOLEAN /\ backend_ok \in BOOLEAN
  /\ fault \in Faults

Init == InitCommon /\ (InitStructural \/ InitConfig)

\* --------------------------------------------------------------- FreshIndex

\* An acquisition whose call has not returned yet has no index.
NoIndex == 0 - 1

\* Mutant: the counter is read and written without the lock being held.
MutexIgnored == TRUE

\* mutex_lock l(s_serial_counter_mutex) is acquired only while no thread
\* holds the mutex.
MutexFree == mutex = 0

FiLock(t) ==
  /\ pc[t] = "lock"
  /\ MutexFree
  /\ mutex' = t
  /\ acquired' = Append(acquired, [t |-> t, idx |-> NoIndex])
  /\ pc' = [pc EXCEPT ![t] = "read"]
  /\ UNCHANGED <<optVars, iterVars,
                 cfgVars, s_serial_counter, reg, idx, runVars, histVars, cache, calls>>

\* s_serial_counter++ reads the counter ...
FiRead(t) ==
  /\ pc[t] = "read"
  /\ reg' = [reg EXCEPT ![t] = s_serial_counter]
  /\ pc' = [pc EXCEPT ![t] = "write"]
  /\ UNCHANGED <<optVars, iterVars,
                 cfgVars, s_serial_counter, mutex, idx, acquired, runVars,
                 histVars, cache, calls>>

\* Mutant: the value read is written back as it was.
FiWriteBack(t) ==
  /\ pc[t] = "write"
  /\ s_serial_counter' = reg[t]
  /\ pc' = [pc EXCEPT ![t] = "unlock"]
  /\ UNCHANGED <<optVars, iterVars,
                 cfgVars, mutex, reg, idx, acquired, runVars, histVars, cache, calls>>

\* ... and writes it back, one higher.
FiWrite(t) ==
  /\ pc[t] = "write"
  /\ s_serial_counter' = reg[t] + 1
  /\ pc' = [pc EXCEPT ![t] = "unlock"]
  /\ UNCHANGED <<optVars, iterVars,
                 cfgVars, mutex, reg, idx, acquired, runVars, histVars, cache, calls>>

\* The lock entry of thread t that has no index yet.
OpenEntry(t) ==
  CHOOSE i \in 1..Len(acquired) :
    /\ acquired[i].t = t /\ acquired[i].idx = NoIndex
    /\ \A j \in (i + 1)..Len(acquired) : acquired[j].t # t

\* The value read is returned as idx and l's destructor releases the mutex.
FiUnlock(t) ==
  /\ pc[t] = "unlock"
  /\ idx' = [idx EXCEPT ![t] = reg[t]]
  /\ mutex' = 0
  /\ acquired' = [acquired EXCEPT ![OpenEntry(t)].idx = reg[t]]
  /\ pc' = [pc EXCEPT ![t] = "check"]
  /\ phases' = IF t = Main /\ phases # <<>> THEN Append(phases, "index") ELSE phases
  /\ UNCHANGED <<optVars, iterVars,
                 cfgVars, s_serial_counter, reg, input, from_prev, graph,
                 ovtf_not_enabled, already_processed, nodes_to_preserve,
                 nodes_to_add_identity_to, output, status, dump, histVars,
                 cache, calls,
                 what, encap_config, attributes_set>>

\* ----------------------------------------------------------------- Optimize

\* Mutant: deassignment runs before assignment.
AfterSwapped(step) ==
  CASE step = "convert" -> "estimator"
    [] step = "estimator" -> "lock"
    [] step = "check" -> "preserve"
    [] step = "preserve" -> "identity"
    [] step = "identity" -> "backend"
    [] step = "backend" -> "mark"
    [] step = "mark" -> "deassign"
    [] step = "deassign" -> "assign"
    [] step = "assign" -> "encapsulate"
    [] step = "encapsulate" -> "output"
    [] OTHER -> "done"

\* The step that follows each step of Optimize that succeeded.
After(step) ==
  CASE step = "convert" -> "estimator"
    [] step = "estimator" -> "lock"
    [] step = "check" -> "preserve"
    [] step = "preserve" -> "identity"
    [] step = "identity" -> "backend"
    [] step = "backend" -> "mark"
    [] step = "mark" -> "assign"
    [] step = "assign" -> "deassign"
    [] step = "deassign" -> "encapsulate"
    [] step = "encapsulate" -> "output"
    [] OTHER -> "done"

Goto(step) == pc' = [pc EXCEPT ![Main] = step]
Ran(step) == phases' = Append(phases, step)

\* char env_value = openvino_tf_disable_env[0]; env_value == '1'
EnvDisables(e) == e.set /\ Len(e.val) >= 1 /\ e.val[1] = "1"
NotEnabled(api, e) == ~api \/ EnvDisables(e)
\* Mutants of the skip condition: one operand forgotten.
SkipOnlyProcessed(not_enabled, processed) == processed
SkipOnlyDisabled(not_enabled, processed) == not_enabled
\* if (ovtf_not_enabled || already_processed)
SkipCondition(not_enabled, processed) == not_enabled \/ processed

NewRun ==
  /\ pc[Main] = "idle"
  /\ runs < MaxRuns
  /\ graph' = NoGraph
  /\ ovtf_not_enabled' = FALSE
  /\ already_processed' = FALSE
  /\ nodes_to_preserve' = {}
  /\ nodes_to_add_identity_to' = {}
  /\ output' = Unwritten
  /\ status' = ""
  /\ phases' = <<>>
  /\ dump' = NoDump
  /\ what' = ""
  /\ encap_config' = NoConfig
  /\ attributes_set' = {}
  /\ Goto("convert")
  /\ UNCHANGED <<optVars, iterVars,
                 cfgVars, counterVars, histVars, cache, calls>>

\* The caller optimizes its first graph.
Start == NewRun /\ input' = graph_def0 /\ from_prev' = FALSE

\* The caller optimizes the graph the previous invocation returned.
StartOnOutput == NewRun /\ prev_out.written /\ input' = prev_out.gd /\ from_prev' = TRUE

\* ConvertGraphDefToGraph(opts, graph_def, &graph)
Convert ==
  /\ pc[Main] = "convert"
  /\ Ran("convert")
  /\ IF WellFormed(input)
     THEN /\ graph' = ConvertGraphDefToGraph(input)
          /\ Goto(After("convert"))
          /\ status' = status
     ELSE /\ graph' = graph
          /\ Goto("done")
          /\ status' = "error"
  /\ UNCHANGED <<optVars, iterVars,
                 cfgVars, counterVars, histVars, cache, calls, input, from_prev,
                 ovtf_not_enabled, already_processed, nodes_to_preserve,
                 nodes_to_add_identity_to, output, dump,
                 what, encap_config, attributes_set>>

\* estimator->Initialize(grappler_item), then PredictCosts
Estimator ==
  /\ pc[Main] = "estimator"
  /\ Ran("estimator")
  /\ IF fault = "estimator"
     THEN Goto("done") /\ status' = "error"
     ELSE Goto(After("estimator")) /\ status' = status
  /\ UNCHANGED <<optVars, iterVars,
                 cfgVars, counterVars, histVars, cache, calls, input, from_prev,
                 graph, ovtf_not_enabled, already_processed, nodes_to_preserve,
                 nodes_to_add_identity_to, output, dump,
                 what, encap_config, attributes_set>>

\* The enable check: a disabled pass or a processed graph evicts the cached
\* clusters, writes the graph as it was converted and returns OK.
Check ==
  /\ pc[Main] = "check"
  /\ Ran("check")
  /\ ovtf_not_enabled' = NotEnabled(api_enabled, env)
  /\ already_processed' = IsAlreadyProcessed(graph)
  /\ IF SkipCondition(ovtf_not_enabled', already_processed')
     THEN /\ cache' = {}
          /\ output' = [written |-> TRUE, gd |-> ToGraphDef(graph)]
          /\ status' = "OK"
          /\ Goto("done")
     ELSE /\ Goto(After("check"))
          /\ UNCHANGED <<cache, output, status>>
  /\ UNCHANGED <<optVars, iterVars,
                 cfgVars, counterVars, histVars, calls, input, from_prev, graph,
                 nodes_to_preserve, nodes_to_add_identity_to, dump,
                 what, encap_config, attributes_set>>

\* Feed nodes, keep ops and init ops
NodesToPreserve(m) == m.feed \cup m.keep_ops \cup m.init_ops
\* The nodes (of graph.nodes()) whose type is disabled
DisabledNodes(g, dis) == {n \in DOMAIN g.nd : g.nd[n].op \in dis}
\* Mutant: the fetch names are taken with their output-slot suffix.
FetchNamesWhole(fetch) == fetch

\* f.substr(0, f.find(":")) of every fetch
FetchNodes(fetch) == {Substr(f, 0, Find(f, ":")) : f \in fetch}
\* nodes_to_add_identity_to = fetch_nodes - disabled_nodes
NodesToAddIdentityTo(g, m, dis) == FetchNodes(m.fetch) \ DisabledNodes(g, dis)

Preserve ==
  /\ pc[Main] = "preserve"
  /\ Ran("preserve")
  /\ nodes_to_preserve' = NodesToPreserve(meta)
  /\ nodes_to_add_identity_to' = NodesToAddIdentityTo(graph, meta, disabled_ops)
  /\ Goto(After("preserve"))
  /\ UNCHANGED <<optVars, iterVars,
                 cfgVars, counterVars, histVars, cache, calls, input, from_prev,
                 graph, ovtf_not_enabled, already_processed, output, status, dump,
                 what, encap_config, attributes_set>>

\* TF_RETURN_IF_ERROR(AddIdentityN(...)); the fetch names join the protected
\* set; DumpTFGraph "unmarked".
Identity ==
  /\ pc[Main] = "identity"
  /\ Ran("identity")
  /\ IF fault = "identity"
     THEN /\ Goto("done") /\ status' = "error"
          /\ UNCHANGED <<graph, nodes_to_preserve, dump>>
     ELSE /\ graph' = AddIdentityN(graph, nodes_to_add_identity_to)
          /\ nodes_to_preserve' = nodes_to_preserve \cup nodes_to_add_identity_to
          /\ dump' = [dump EXCEPT !.unmarked = <<graph'>>]
          /\ Goto(After("identity")) /\ status' = status
  /\ UNCHANGED <<optVars, iterVars,
                 cfgVars, counterVars, histVars, cache, calls, input, from_prev,
                 ovtf_not_enabled, already_processed, nodes_to_add_identity_to,
                 output,
                 what, encap_config, attributes_set>>

\* BackendManager::GetBackendName(device): OK, or a status with a message.
BackendError == "backend not available"
GetBackendName(ok) ==
  [ok |-> ok, error_message |-> IF ok THEN "" ELSE BackendError]

\* Mutant: the status of GetBackendName is not looked at.
BackendStatusIgnored ==
  /\ pc[Main] = "backend"
  /\ Ran("backend")
  /\ LET exec_status == GetBackendName(backend_ok)
     IN Goto(After("backend")) /\ status' = status /\ what' = what
  /\ UNCHANGED <<optVars, iterVars,
                 cfgVars, counterVars, histVars, cache, calls, input, from_prev,
                 graph, ovtf_not_enabled, already_processed, nodes_to_preserve,
                 nodes_to_add_identity_to, output, dump,
                 encap_config, attributes_set>>

\* BackendManager::GetBackendName(device); a failure is thrown as a
\* runtime_error that carries the status's message.
Backend ==
  /\ pc[Main] = "backend"
  /\ Ran("backend")
  /\ LET exec_status == GetBackendName(backend_ok)
     IN IF exec_status.ok
        THEN Goto(After("backend")) /\ status' = status /\ what' = what
        ELSE Goto("done") /\ status' = "thrown"
             /\ what' = exec_status.error_message
  /\ UNCHANGED <<optVars, iterVars,
                 cfgVars, counterVars, histVars, cache, calls, input, from_prev,
                 graph, ovtf_not_enabled, already_processed, nodes_to_preserve,
                 nodes_to_add_identity_to, output, dump,
                 encap_config, attributes_set>>

\* 1. Marking; DumpTFGraph "marked".
Mark ==
  /\ pc[Main] = "mark"
  /\ Ran("mark")
  /\ graph' = MarkNodes(graph, MarkSupportedNodes(graph, disabled_ops))
  /\ attributes_set' = SetAttributes(graph, MarkSupportedNodes(graph, disabled_ops))
  /\ dump' = [dump EXCEPT !.marked = <<graph'>>]
  /\ Goto(After("mark"))
  /\ UNCHANGED <<optVars, iterVars,
                 cfgVars, counterVars, histVars, cache, calls, input, from_prev,
                 ovtf_not_enabled, already_processed, nodes_to_preserve,
                 nodes_to_add_identity_to, output, status,
                 what, encap_config>>

\* Mutant: the cluster labels are numbered on from the pass index.
AssignNumbersFromCounter ==
  /\ pc[Main] = "assign"
  /\ Ran("assign")
  /\ IF fault = "assign"
     THEN /\ Goto("done") /\ status' = "error"
          /\ UNCHANGED <<graph, dump>>
     ELSE /\ graph' = LET g == AssignClusters(graph)
                        IN WithLabels(g, [n \in DOMAIN g.nd |->
                             IF g.nd[n].marked /\ g.nd[n].cluster # NoCluster
                             THEN g.nd[n].cluster + idx[Main]
                             ELSE g.nd[n].cluster])
          /\ dump' = [dump EXCEPT !.clustered = <<graph'>>]
          /\ Goto(After("assign")) /\ status' = status
  /\ UNCHANGED <<optVars, iterVars,
                 cfgVars, counterVars, histVars, cache, calls, input, from_prev,
                 ovtf_not_enabled, already_processed, nodes_to_preserve,
                 nodes_to_add_identity_to, output,
                 what, encap_config, attributes_set>>

\* 2. TF_RETURN_IF_ERROR(AssignClusters(&graph)); DumpTFGraph "clustered".
Assign ==
  /\ pc[Main] = "assign"
  /\ Ran("assign")
  /\ IF fault = "assign"
     THEN /\ Goto("done") /\ status' = "error"
          /\ UNCHANGED <<graph, dump>>
     ELSE /\ graph' = AssignClusters(graph)
          /\ dump' = [dump EXCEPT !.clustered = <<graph'>>]
          /\ Goto(After("assign")) /\ status' = status
  /\ UNCHANGED <<optVars, iterVars,
                 cfgVars, counterVars, histVars, cache, calls, input, from_prev,
                 ovtf_not_enabled, already_processed, nodes_to_preserve,
                 nodes_to_add_identity_to, output,
                 what, encap_config, attributes_set>>

\* 3. TF_RETURN_IF_ERROR(DeassignClusters(&graph)); DumpTFGraph "declustered".
Deassign ==
  /\ pc[Main] = "deassign"
  /\ Ran("deassign")
  /\ IF fault = "deassign"
     THEN /\ Goto("done") /\ status' = "error"
          /\ UNCHANGED <<graph, dump>>
     ELSE /\ graph' = DeassignClusters(graph)
          /\ dump' = [dump EXCEPT !.declustered = <<graph'>>]
          /\ Goto(After("deassign")) /\ status' = status
  /\ UNCHANGED <<optVars, iterVars,
                 cfgVars, counterVars, histVars, cache, calls, input, from_prev,
                 ovtf_not_enabled, already_processed, nodes_to_preserve,
                 nodes_to_add_identity_to, output,
                 what, encap_config, attributes_set>>

\* Mutant: the graph is written to *output before the status is looked at.
EncapsulateWritesFirst ==
  /\ pc[Main] = "encapsulate"
  /\ Ran("encapsulate")
  /\ encap_config' = m_config_map
  /\ output' = [written |-> TRUE, gd |-> ToGraphDef(graph)]
  /\ IF fault = "encapsulate"
     THEN /\ Goto("done") /\ status' = "error"
          /\ UNCHANGED <<graph, dump, cache>>
     ELSE /\ graph' = EncapsulateClusters(graph, idx[Main])
          /\ cache' = cache \cup (FusedNodes(graph') \ FusedNodes(graph))
          /\ dump' = [dump EXCEPT !.encapsulated = <<graph'>>]
          /\ Goto(After("encapsulate")) /\ status' = status
  /\ UNCHANGED <<optVars, iterVars,
                 cfgVars, counterVars, histVars, calls, input, from_prev,
                 ovtf_not_enabled, already_processed, nodes_to_preserve,
                 nodes_to_add_identity_to,
                 what, attributes_set>>

\* 4. EncapsulateClusters(&graph, idx, m_config_map); a status other than OK
\* is returned; DumpTFGraph "encapsulated".
Encapsulate ==
  /\ pc[Main] = "encapsulate"
  /\ Ran("encapsulate")
  /\ encap_config' = m_config_map
  /\ IF fault = "encapsulate"
     THEN /\ Goto("done") /\ status' = "error"
          /\ UNCHANGED <<graph, dump, cache>>
     ELSE /\ graph' = EncapsulateClusters(graph, idx[Main])
          /\ cache' = cache \cup (FusedNodes(graph') \ FusedNodes(graph))
          /\ dump' = [dump EXCEPT !.encapsulated = <<graph'>>]
          /\ Goto(After("encapsulate")) /\ status' = status
  /\ UNCHANGED <<optVars, iterVars,
                 cfgVars, counterVars, histVars, calls, input, from_prev,
                 ovtf_not_enabled, already_processed, nodes_to_preserve,
                 nodes_to_add_identity_to, output,
                 what, attributes_set>>

\* graph.ToGraphDef(output); return Status::OK()
Output ==
  /\ pc[Main] = "output"
  /\ Ran("output")
  /\ output' = [written |-> TRUE, gd |-> ToGraphDef(graph)]
  /\ status' = "OK"
  /\ Goto(After("output"))
  /\ UNCHANGED <<optVars, iterVars,
                 cfgVars, counterVars, histVars, cache, calls, input, from_prev,
                 graph, ovtf_not_enabled, already_processed, nodes_to_preserve,
                 nodes_to_add_identity_to, dump,
                 what, encap_config, attributes_set>>

\* Optimize has returned (or thrown) to its caller.
Return ==
  /\ pc[Main] = "done"
  /\ runs' = runs + 1
  /\ prev_out' = IF output.written THEN output ELSE prev_out
  /\ prev_run' = IF output.written
                 THEN [input |-> input, idx |-> idx[Main], dump |-> dump]
                 ELSE prev_run
  /\ indexed' = IF "index" \in Range(phases) THEN indexed + 1 ELSE indexed
  /\ Goto("idle")
  /\ UNCHANGED <<optVars, iterVars,
                 cfgVars, counterVars, runVars, cache, calls>>

\* Between two invocations the process sets OPENVINO_TF_DISABLE=1.
Setenv ==
  /\ pc[Main] = "idle"
  /\ runs < MaxRuns
  /\ env # SetTo(<<"1">>)
  /\ env' = SetTo(<<"1">>)
  /\ UNCHANGED <<optVars, iterVars,
                 api_enabled, backend_ok, disabled_ops, fault, meta, graph_def0,
                 counterVars, runVars, histVars, cache, pc, calls>>

Next ==
  \/ Start \/ StartOnOutput \/ Convert \/ Estimator
  \/ FiLock(Main) \/ FiRead(Main) \/ FiWrite(Main) \/ FiUnlock(Main)
  \/ Check \/ Preserve \/ Identity \/ Backend \/ Mark \/ Assign \/ Deassign
  \/ Encapsulate \/ Output \/ Return \/ Setenv

Spec == Init /\ [][Next]_vars

\* ----------------------------------------------- the four-node graphs

InitCluster ==
  /\ InitCommon
  /\ graph_def0 \in Family4
  /\ meta = Meta({}, {}, {}, {}, {}) /\ disabled_ops = {}
  /\ env = Unset /\ api_enabled = TRUE /\ backend_ok = TRUE /\ fault = "none"

ClusterSpec == InitCluster /\ [][Next]_vars

\* ------------------------------------------------------- OVTFOptimizer::Init

\* A value of the parameter map: an AttrValue holding a string or a number.
AttrS(v) == [kind |-> "s", s |-> v, i |-> 0]
AttrI(n) == [kind |-> "i", s |-> "", i |-> n]
ParameterMaps ==
  {<<>>,
   (<<"a">> :> AttrS("x")),
   (<<"a">> :> AttrS("y")) @@ (<<"b">> :> AttrI(7)),
   (<<"a">> :> AttrS("x")) @@ (<<"_", "o", "v", "t", "f", "_", "a">> :> AttrS("z"))}

\* "_ovtf_" + i.first
Prefixed(k) == <<"_", "o", "v", "t", "f", "_">> \o k

\* Mutant: the value is stored under the key as given.
InitUnprefixed(params) ==
  /\ pc[Main] = "idle"
  /\ config' = params
  /\ m_config_map' =
       [k \in DOMAIN m_config_map \cup DOMAIN params |->
          IF k \in DOMAIN params THEN params[k].s ELSE m_config_map[k]]
  /\ UNCHANGED <<cfgVars, counterVars, runVars, histVars, cache, pc, calls, iterVars>>

\* OVTFOptimizer::Init: m_config_map["_ovtf_" + i.first] = i.second.s() for
\* every entry of the parameter map; the entries already there stay.
OptimizerInit(params) ==
  /\ pc[Main] = "idle"
  /\ config' = params
  /\ m_config_map' =
       [k \in DOMAIN m_config_map \cup {Prefixed(i) : i \in DOMAIN params} |->
          IF \E i \in DOMAIN params : k = Prefixed(i)
          THEN params[CHOOSE i \in DOMAIN params : k = Prefixed(i)].s
          ELSE m_config_map[k]]
  /\ UNCHANGED <<cfgVars, counterVars, runVars, histVars, cache, pc, calls, iterVars>>

ConfigInit ==
  /\ InitCommon
  /\ graph_def0 \in {BuildDef(<<"Add", "Add", "Add">>, {<<1, 2>>, <<2, 3>>}),
                      BuildDef(<<"Add", "Custom", "Add">>, {<<1, 2>>, <<2, 3>>})}
  /\ meta = Meta({}, {}, {}, {}, {}) /\ disabled_ops = {}
  /\ env = Unset /\ api_enabled = TRUE /\ backend_ok = TRUE /\ fault = "none"

ConfigNext == Next \/ \E params \in ParameterMaps : OptimizerInit(params)

ConfigSpec == ConfigInit /\ [][ConfigNext]_vars

\* ------------------------------------------- concurrent invocations

\* An invocation on thread t reaches "int idx = FreshIndex()".
ConcCall(t) ==
  /\ pc[t] = "idle"
  /\ calls[t] < MaxCalls
  /\ calls' = [calls EXCEPT ![t] = calls[t] + 1]
  /\ pc' = [pc EXCEPT ![t] = "lock"]
  /\ UNCHANGED <<optVars, iterVars,
                 cfgVars, counterVars, runVars, histVars, cache>>

\* The rest of the invocation touches neither the counter nor the mutex.
ConcReturn(t) ==
  /\ pc[t] = "check"
  /\ pc' = [pc EXCEPT ![t] = "idle"]
  /\ UNCHANGED <<optVars, iterVars,
                 cfgVars, counterVars, runVars, histVars, cache, calls>>

ConcInit ==
  /\ InitCommon
  /\ graph_def0 = EmptyDef
  /\ meta = Meta({}, {}, {}, {}, {}) /\ disabled_ops = {}
  /\ env = Unset /\ api_enabled = TRUE /\ backend_ok = TRUE /\ fault = "none"

ConcNext ==
  \E t \in Threads :
    \/ ConcCall(t) \/ FiLock(t) \/ FiRead(t) \/ FiWrite(t) \/ FiUnlock(t)
    \/ ConcReturn(t)

ConcSpec == ConcInit /\ [][ConcNext]_vars

\* ------------------------------------------------------- OVTFGraphIterator

MaxNodes == 3
MaxIndex == 5

optimizerVars == <<cfgVars, counterVars, runVars, histVars, cache, pc, calls, optVars>>

\* The GraphDefs an iterator is constructed over: zero to MaxNodes nodes.
FirstNodes(gd, n) ==
  [gd EXCEPT !.node = SubSeq(gd.node, 1, IF n < Len(gd.node) THEN n ELSE Len(gd.node))]
IterGraphs == {FirstNodes(gd, n) : gd \in FamilySmall, n \in 0..MaxNodes}

\* m_nodes[i] = &m_graph_def->node(i): a pointer is the position it points at.
Construct(gd) == [i \in 1..Len(gd.node) |-> i - 1]
Deref(ptr) == m_graph_def.node[ptr + 1]

\* What reading m_nodes beyond its end may give: some NodeDef of the graph
\* or something that is none.
Wild == NodeDef(<<"?">>, "?", <<>>, 0)

\* size_t size() const
size == Len(m_nodes)

\* Mutant: the end is reported one step late.
is_end_late == node_index > Len(m_nodes)

\* bool is_end() const
is_end == node_index >= Len(m_nodes)

\* get_decoder(): the decoders it may return; m_nodes[node_index] past the
\* end of the vector is undefined.
get_decoder ==
  IF node_index < Len(m_nodes)
  THEN {Deref(m_nodes[node_index + 1])}
  ELSE {m_graph_def.node[i] : i \in 1..Len(m_graph_def.node)} \cup {Wild}

\* void reset()
reset == node_index' = 0
\* void next(); node_index is a size_t, here kept below MaxIndex.
next == node_index < MaxIndex /\ node_index' = node_index + 1

IterInit ==
  /\ InitOptimizer
  /\ graph_def0 = EmptyDef
  /\ meta = Meta({}, {}, {}, {}, {}) /\ disabled_ops = {}
  /\ env = Unset /\ api_enabled = TRUE /\ backend_ok = TRUE /\ fault = "none"
  /\ m_graph_def \in IterGraphs
  /\ m_nodes = Construct(m_graph_def)
  /\ node_index = 0
  /\ loop = "fresh"
  /\ decoded = <<>>

Outside == loop \in {"fresh", "none", "end"}

\* Calls made outside the traversal loop, in any order.
CallReset ==
  /\ Outside /\ reset /\ loop' = "fresh"
  /\ UNCHANGED <<optimizerVars, m_graph_def, m_nodes, decoded>>
CallNext ==
  /\ Outside /\ next /\ loop' = "none"
  /\ UNCHANGED <<optimizerVars, m_graph_def, m_nodes, decoded>>
CallGetDecoder ==
  /\ Outside /\ loop' = "none"
  /\ \E d \in get_decoder : decoded' = <<d>>
  /\ UNCHANGED <<optimizerVars, m_graph_def, m_nodes, node_index>>

\* while (!it.is_end()) { it.get_decoder(); it.next(); } on an iterator just
\* constructed or reset.
LoopStart ==
  /\ loop = "fresh" /\ loop' = "test" /\ decoded' = <<>>
  /\ UNCHANGED <<optimizerVars, m_graph_def, m_nodes, node_index>>
LoopTest ==
  /\ loop = "test"
  /\ loop' = IF is_end THEN "end" ELSE "body"
  /\ UNCHANGED <<optimizerVars, m_graph_def, m_nodes, node_index, decoded>>
LoopBody ==
  /\ loop = "body" /\ loop' = "step"
  /\ \E d \in get_decoder : decoded' = Append(decoded, d)
  /\ UNCHANGED <<optimizerVars, m_graph_def, m_nodes, node_index>>
LoopStep ==
  /\ loop = "step" /\ next /\ loop' = "test"
  /\ UNCHANGED <<optimizerVars, m_graph_def, m_nodes, decoded>>

IterNext ==
  \/ CallReset \/ CallNext \/ CallGetDecoder
  \/ LoopStart \/ LoopTest \/ LoopBody \/ LoopStep

IterSpec == IterInit /\ [][IterNext]_vars

\* ------------------------------------------------------------------ claims

Finished == pc[Main] = "done"
ReachedCheck == "check" \in Range(phases)
SkipPhases == <<"convert", "estimator", "index", "check">>
FullPhases ==
  <<"convert", "estimator", "index", "check", "preserve", "identity", "backend",
    "mark", "assign", "deassign", "encapsulate", "output">>
DefFused(gd) == {i \in 1..Len(gd.node) : gd.node[i].op = EncapsulateOp}

\* C1 as stated: whenever the pass is disabled (API or environment) or the
\* graph is already processed, Optimize returns OK with the output equal to
\* the input, no phase run and the cached clusters evicted.
C1_AsStated ==
  (Finished /\ (NotEnabled(api_enabled, env) \/ input.processed)) =>
    /\ status = "OK"
    /\ output = [written |-> TRUE, gd |-> input]
    /\ phases = SkipPhases
    /\ cache = {}

\* C1 amended: an invocation that gets past graph conversion and estimator
\* initialisation with the pass disabled or the graph already processed
\* returns OK, writes the input graph unchanged to the output, runs no phase
\* (none of the dumps is taken) and leaves no cluster cached.
C1_SoftSkip ==
  (Finished /\ ReachedCheck
     /\ (NotEnabled(api_enabled, env)
           \/ IsAlreadyProcessed(ConvertGraphDefToGraph(input)))) =>
    /\ status = "OK"
    /\ output = [written |-> TRUE, gd |-> input]
    /\ phases = SkipPhases
    /\ dump = NoDump
    /\ graph = ConvertGraphDefToGraph(input)
    /\ cache = {}

C1_Witness ==
  /\ Finished /\ ReachedCheck
  /\ EnvDisables(env) /\ ~input.processed
  /\ Len(input.node) = 3 /\ output.written /\ phases = SkipPhases

\* C2: a run that went through the whole pipeline leaves the processed
\* marker in its output, and a run on such an output takes the
\* already-processed skip path and returns its input unchanged.
C2_Idempotence ==
  /\ (Finished /\ "output" \in Range(phases)) => (status = "OK" /\ output.gd.processed)
  /\ (Finished /\ from_prev /\ input.processed) =>
       /\ status = "OK"
       /\ already_processed
       /\ phases = SkipPhases
       /\ output = [written |-> TRUE, gd |-> input]

C2_Witness ==
  /\ Finished /\ from_prev /\ input.processed /\ ~ovtf_not_enabled
  /\ DefFused(input) # {} /\ output.written

\* C3 as stated: no node named in the protected set carries a cluster label
\* or is a member of a fused node.
C3_AsStated ==
  \A n \in nodes_to_preserve :
    /\ n \in DOMAIN graph.nd => graph.nd[n].cluster = NoCluster
    /\ \A f \in FusedNodes(graph) : n \notin Range(graph.nd[f].members)

RECURSIVE TransitiveClosure(_)
TransitiveClosure(R) ==
  LET step == R \cup {<<pq[1][1], pq[2][2]>> :
                        pq \in {x \in R \X R : x[1][2] = x[2][1]}}
  IN IF step = R THEN R ELSE TransitiveClosure(step)

\* The clusters collapsed: each labelled node stands for its whole cluster.
Collapsed(g) ==
  {<<Group(Labels(g), e.src), Group(Labels(g), e.dst)>> :
     e \in {x \in g.edges : Group(Labels(g), x.src) # Group(Labels(g), x.dst)}}
Acyclic(R) == \A p \in TransitiveClosure(R) : p[1] # p[2]
NodeEdges(g) == {<<e.src, e.dst>> : e \in g.edges}

Declustered == dump.declustered[1]
Encapsulated == dump.encapsulated[1]

\* C4: after assignment and deassignment the graph with every surviving
\* cluster collapsed to one node has no cycle, and neither has the graph
\* with the fused nodes in place.
C4_NoCycle ==
  /\ dump.declustered # <<>> => Acyclic(Collapsed(Declustered))
  /\ dump.encapsulated # <<>> => Acyclic(NodeEdges(Encapsulated))

\* Two clusters survive side by side, joined by an edge: merging them was
\* refused.
C4_Witness ==
  /\ dump.encapsulated # <<>>
  /\ \E e \in Declustered.edges :
       /\ Declustered.nd[e.src].cluster # NoCluster
       /\ Declustered.nd[e.dst].cluster # NoCluster
       /\ Declustered.nd[e.src].cluster # Declustered.nd[e.dst].cluster

\* The node that stands for n once the clusters are fused.
Final(g, i, n) ==
  IF g.nd[n].marked /\ g.nd[n].cluster # NoCluster
  THEN FusedName(i, g.nd[n].cluster) ELSE n
Clustered(g, n) == g.nd[n].marked /\ g.nd[n].cluster # NoCluster
Boundary(g, k) ==
  {e \in g.edges : (e.src \in Members(g, k)) # (e.dst \in Members(g, k))}
Touching(g, F) == {e \in g.edges : e.src = F \/ e.dst = F}
Between(g, i, U, V) ==
  {e \in g.edges : Final(g, i, e.src) = U /\ Final(g, i, e.dst) = V /\ U # V}

\* C5 as stated: the edges crossing a surviving cluster's boundary and the
\* edges touching its fused node are in one-to-one correspondence, so they
\* are as many.
C5_AsStated ==
  dump.encapsulated # <<>> =>
    \A k \in ClusterIds(Declustered) :
      Cardinality(Boundary(Declustered, k))
        = Cardinality(Touching(Encapsulated, FusedName(idx[Main], k)))

\* C5 amended: the rewritten graph has no dangling edge and no input slot
\* read twice; between two nodes of the rewritten graph there are as many
\* edges as the original edges between what they stand for, except that the
\* edges entering a fused node from the same producer output share one
\* fused-node input; and two consumers outside every cluster read the same
\* fused-node output slot exactly when they read the same original output.
C5_Signature ==
  dump.encapsulated # <<>> =>
    LET pre == Declustered
        fin == Encapsulated
        i == idx[Main]
    IN /\ WellFormed(ToGraphDef(fin))
       /\ ConvertGraphDefToGraph(ToGraphDef(fin)).edges = fin.edges
       /\ \A n \in DOMAIN fin.nd :
            {e.di : e \in InEdges(fin, n)} = 0..(Cardinality(InEdges(fin, n)) - 1)
       /\ DOMAIN fin.nd = {Final(pre, i, n) : n \in DOMAIN pre.nd}
       /\ \A U \in DOMAIN fin.nd, V \in DOMAIN fin.nd :
            Cardinality({f \in fin.edges : f.src = U /\ f.dst = V})
              = IF V \in FusedNodes(fin) \ FusedNodes(pre)
                THEN Cardinality({Port(e) : e \in Between(pre, i, U, V)})
                ELSE Cardinality(Between(pre, i, U, V))
       /\ \A e1 \in pre.edges, e2 \in pre.edges :
            (/\ Clustered(pre, e1.src) /\ ~Clustered(pre, e1.dst)
             /\ Clustered(pre, e2.src) /\ ~Clustered(pre, e2.dst)
             /\ pre.nd[e1.src].cluster = pre.nd[e2.src].cluster) =>
              \E f1 \in fin.edges, f2 \in fin.edges :
                /\ f1.dst = e1.dst /\ f1.di = e1.di
                /\ f2.dst = e2.dst /\ f2.di = e2.di
                /\ f1.src = Final(pre, i, e1.src) /\ f2.src = f1.src
                /\ (f1.so = f2.so) = (Port(e1) = Port(e2))
       /\ \A k \in ClusterIds(pre) :
            fin.nd[FusedName(i, k)].nout
              = Cardinality({Port(e) : e \in {x \in pre.edges :
                               x.src \in Members(pre, k) /\ x.dst \notin Members(pre, k)}})

\* A surviving cluster two of whose boundary edges read the same outside
\* output: they share one input of the fused node.
C5_Witness ==
  /\ dump.encapsulated # <<>>
  /\ \E k \in ClusterIds(Declustered) :
       /\ Cardinality(Boundary(Declustered, k))
            > Cardinality(Touching(Encapsulated, FusedName(idx[Main], k)))
       /\ \E e1 \in Boundary(Declustered, k), e2 \in Boundary(Declustered, k) :
            e1 # e2 /\ Port(e1) = Port(e2) /\ e1.dst \in Members(Declustered, k)

\* C6: the caller's output is written only by an invocation that returns OK,
\* and then it is the whole rewritten (or skipped) graph; an invocation that
\* fails or throws leaves the output unwritten, and no invocation writes the
\* output before its last step.
C6_AtomicFailure ==
  /\ pc[Main] \notin {"idle", "done"} => output = Unwritten
  /\ Finished => status \in {"OK", "error", "thrown"}
  /\ (Finished /\ status # "OK") => output = Unwritten
  /\ (Finished /\ status = "OK") =>
       /\ output = [written |-> TRUE, gd |-> ToGraphDef(graph)]
       /\ phases \in {SkipPhases, FullPhases}

\* Encapsulation fails on a graph that is already marked and clustered.
C6_Witness ==
  /\ Finished /\ status = "error" /\ phases[Len(phases)] = "encapsulate"
  /\ \E n \in DOMAIN graph.nd : graph.nd[n].marked /\ graph.nd[n].cluster # NoCluster
  /\ output = Unwritten

\* C7: the indices FreshIndex hands out are strictly increasing in the order
\* the lock was acquired, no acquisition happens before the previous call
\* has its index, and no two threads hold the same index.
C7_UniqueIndex ==
  /\ \A i \in 1..Len(acquired), j \in 1..Len(acquired) :
       i < j => /\ acquired[i].idx # NoIndex
                /\ (acquired[j].idx # NoIndex => acquired[i].idx < acquired[j].idx)
  /\ \A t \in Threads, u \in Threads :
       (t # u /\ calls[t] > 0 /\ calls[u] > 0
          /\ pc[t] \in {"check", "idle"} /\ pc[u] \in {"check", "idle"}) =>
         idx[t] # idx[u]

\* Every thread has its index, and the lock was not taken in thread order.
C7_Witness ==
  /\ Len(acquired) = NThreads
  /\ \A i \in 1..Len(acquired) : acquired[i].idx # NoIndex
  /\ acquired[1].t # Main
  /\ \A t \in Threads : pc[t] = "check"

IsPrefix(a, b) == Len(a) <= Len(b) /\ \A i \in 1..Len(a) : a[i] = b[i]
Marked(g) == {n \in DOMAIN g.nd : g.nd[n].marked}

\* C8: the steps of an invocation run in the one fixed order, the step about
\* to run is the one that follows the last one run, each phase works on the
\* graph its predecessor finished (pass-through insertion before marking,
\* marking before assignment, assignment before deassignment, deassignment
\* before encapsulation), and after a failure no step runs.
C8_PhaseOrder ==
  /\ IsPrefix(phases, FullPhases)
  /\ status \in {"error", "thrown"} => pc[Main] \in {"done", "idle"}
  /\ pc[Main] \in {"lock", "read", "write", "unlock"} =>
       phases = <<"convert", "estimator">>
  /\ pc[Main] \notin {"idle", "done", "lock", "read", "write", "unlock"} =>
       (Len(phases) < Len(FullPhases) /\ FullPhases[Len(phases) + 1] = pc[Main])
  /\ (dump.unmarked # <<>>) <=>
       ("identity" \in Range(phases)
          /\ ~(phases[Len(phases)] = "identity" /\ status = "error"))
  /\ (dump.marked # <<>>) <=> ("mark" \in Range(phases))
  /\ dump.marked # <<>> =>
       /\ dump.unmarked # <<>>
       /\ Marked(dump.marked[1]) = MarkSupportedNodes(dump.unmarked[1], disabled_ops)
  /\ dump.clustered # <<>> =>
       /\ dump.marked # <<>>
       /\ Marked(dump.clustered[1]) = Marked(dump.marked[1])
  /\ dump.declustered # <<>> =>
       /\ dump.clustered # <<>>
       /\ \A n \in DOMAIN dump.declustered[1].nd :
            dump.declustered[1].nd[n].cluster
              \in {NoCluster, dump.clustered[1].nd[n].cluster}
  /\ dump.encapsulated # <<>> =>
       /\ dump.declustered # <<>>
       /\ \A f \in FusedNodes(dump.encapsulated[1]) \ FusedNodes(dump.declustered[1]) :
            \E k \in ClusterIds(dump.declustered[1]) :
              Range(dump.encapsulated[1].nd[f].members) = Members(dump.declustered[1], k)
  /\ (output.written /\ phases # SkipPhases) => dump.encapsulated # <<>>

\* Deassignment fails: assignment has run, encapsulation does not.
C8_Witness ==
  /\ Finished /\ status = "error" /\ phases = SubSeq(FullPhases, 1, 10)
  /\ dump.clustered # <<>> /\ dump.declustered = <<>>

\* C9 as stated: with the API enabled and the graph not processed, the pass
\* is skipped exactly when OPENVINO_TF_DISABLE is the string "1".
C9_AsStated ==
  (Finished /\ ReachedCheck /\ api_enabled /\ ~input.processed) =>
    ((phases = SkipPhases) <=> (env = SetTo(<<"1">>)))

\* C10 as stated: a disabled invocation on a graph that carries fused nodes
\* writes an output without fused nodes and without cluster labels.
C10_AsStated ==
  (Finished /\ ReachedCheck /\ ovtf_not_enabled /\ DefFused(input) # {}) =>
    /\ output.written
    /\ DefFused(output.gd) = {}
    /\ \A i \in 1..Len(output.gd.node) : output.gd.node[i].cluster = NoCluster

\* The fused nodes' names carry the pass index; a name with the index blanked.
Unindexed(n) ==
  IF Len(n) = 7 /\ SubSeq(n, 1, 4) = <<"e", "n", "c", "_">>
  THEN [n EXCEPT ![5] = "#"] ELSE n
UnindexedDef(gd) ==
  [gd EXCEPT !.node =
     [i \in 1..Len(gd.node) |->
        [gd.node[i] EXCEPT
           !.name = Unindexed(@),
           !.input = [k \in 1..Len(@) |-> <<Unindexed(@[k][1]), @[k][2]>>]]]]
SameInputAgain ==
  /\ Finished /\ ~from_prev /\ "output" \in Range(phases)
  /\ prev_run.input = input /\ prev_run.dump.encapsulated # <<>>

Count(seq, x) == Cardinality({i \in 1..Len(seq) : seq[i] = x})

\* C12: when the backend name cannot be resolved, Optimize throws an error
\* whose message is the resolver's, with no node marked, no later phase run
\* and nothing written; the resolver is asked once. Optimize throws in no
\* other case.
C12_ConfigurationError ==
  /\ (Finished /\ "backend" \in Range(phases) /\ ~backend_ok) =>
       /\ status = "thrown"
       /\ what = GetBackendName(backend_ok).error_message
       /\ what # ""
       /\ phases = SubSeq(FullPhases, 1, 7)
       /\ Count(phases, "backend") = 1
       /\ Marked(graph) = {}
       /\ dump.marked = <<>> /\ dump.clustered = <<>>
       /\ dump.declustered = <<>> /\ dump.encapsulated = <<>>
       /\ ~output.written
  /\ (status = "thrown") => (~backend_ok /\ pc[Main] \in {"done", "idle"})

C12_Witness ==
  /\ Finished /\ status = "thrown" /\ what = BackendError
  /\ dump.unmarked # <<>> /\ Len(input.node) = 3

\* C13: after Init the configuration map holds, for every key of the
\* parameter map whose value is a string, that string under "_ovtf_" + key;
\* every key of the configuration map begins with "_ovtf_"; and the map
\* EncapsulateClusters receives is the configuration map.
C13_ConfigForwarding ==
  /\ \A k \in DOMAIN config :
       /\ Prefixed(k) \in DOMAIN m_config_map
       /\ config[k].kind = "s" => m_config_map[Prefixed(k)] = config[k].s
  /\ \A key \in DOMAIN m_config_map :
       Len(key) >= 6 /\ SubSeq(key, 1, 6) = Prefixed(<<>>)
  /\ (pc[Main] # "idle" /\ "encapsulate" \in Range(phases)) =>
       encap_config = m_config_map
  /\ (pc[Main] # "idle" /\ "encapsulate" \notin Range(phases)) =>
       encap_config = NoConfig

C13_Witness ==
  /\ Finished /\ "encapsulate" \in Range(phases)
  /\ encap_config = m_config_map
  /\ DOMAIN config = {<<"a">>, <<"b">>}
  /\ m_config_map[Prefixed(<<"a">>)] = "y"
  /\ Prefixed(Prefixed(<<"a">>)) \in DOMAIN m_config_map

\* The node a fetch names: the fetch up to its first ":".
NodeOfFetch(f) ==
  CHOOSE n \in {SubSeq(f, 1, k) : k \in 0..Len(f)} :
    /\ \A i \in 1..Len(n) : n[i] # ":"
    /\ Len(n) = Len(f) \/ f[Len(n) + 1] = ":"
FetchNames == {NodeOfFetch(f) : f \in meta.fetch}
ProtectedSetComputed == dump.unmarked # <<>>

\* C14 as stated: the protected set holds every feed, fetch, keep-alive and
\* init node of the item.
C14_AsStated ==
  ProtectedSetComputed =>
    (meta.feed \cup FetchNames \cup meta.keep_ops \cup meta.init_ops)
      \subseteq nodes_to_preserve

\* C14 amended: the protected set is the feed, keep-alive and init nodes
\* together with the fetch nodes other than those whose operation type is
\* disabled.
C14_ProtectedSet ==
  ProtectedSetComputed =>
    nodes_to_preserve =
      meta.feed \cup meta.keep_ops \cup meta.init_ops
        \cup {n \in FetchNames :
               n \in DefNames(input) => DefNode(input, n).op \notin disabled_ops}

C14_Witness ==
  /\ ProtectedSetComputed
  /\ \E f \in meta.fetch :
       /\ NodeOfFetch(f) # f
       /\ NodeOfFetch(f) \in DefNames(input)
       /\ NodeOfFetch(f) \notin nodes_to_preserve
  /\ meta.keep_ops \subseteq nodes_to_preserve /\ meta.keep_ops # {}

\* C15 as stated: after marking, a node is marked exactly when it is outside
\* the protected set, its type is not disabled and the oracle supports it;
\* and the attribute setter is applied exactly to the marked nodes whose
\* type has one.
C15_AsStated ==
  dump.marked # <<>> =>
    LET g == dump.marked[1]
    IN /\ \A n \in Range(OpNodes(g)) :
            g.nd[n].marked <=>
              /\ n \notin nodes_to_preserve
              /\ g.nd[n].op \notin disabled_ops
              /\ OracleSupports(g.nd[n].op)
       /\ attributes_set =
            {n \in Range(OpNodes(g)) :
               g.nd[n].marked /\ g.nd[n].op \in AttributeSetters}

\* C16: deassignment leaves the nodes, their order, the edges, the markers
\* and every other attribute as they were and changes cluster labels only;
\* an unlabelled node stays unlabelled; and each cluster either keeps its
\* label on every member or loses it on every member, which happens only to
\* a cluster all of whose members are pass-through operations.
C16_DeassignFrame ==
  dump.declustered # <<>> =>
    LET pre == dump.clustered[1]
        post == dump.declustered[1]
    IN /\ post.order = pre.order /\ post.edges = pre.edges
       /\ post.processed = pre.processed
       /\ DOMAIN post.nd = DOMAIN pre.nd
       /\ \A n \in DOMAIN pre.nd :
            /\ [post.nd[n] EXCEPT !.cluster = pre.nd[n].cluster] = pre.nd[n]
            /\ post.nd[n].cluster \in {pre.nd[n].cluster, NoCluster}
       /\ \A k \in ClusterIds(pre) :
            \/ \A n \in Members(pre, k) : post.nd[n].cluster = k
            \/ /\ \A n \in Members(pre, k) : post.nd[n].cluster = NoCluster
               /\ \A n \in Members(pre, k) : IsPassThroughOp(pre.nd[n].op)

C16_Witness ==
  /\ dump.declustered # <<>>
  /\ \E k \in ClusterIds(dump.clustered[1]) :
       /\ Cardinality(Members(dump.clustered[1], k)) = 2
       /\ \A n \in Members(dump.clustered[1], k) :
            dump.declustered[1].nd[n].cluster = NoCluster
  /\ ClusterIds(dump.declustered[1]) # {}

\* Whether the running invocation has incremented the counter.
Incremented ==
  pc[Main] # "idle" /\ ("index" \in Range(phases) \/ pc[Main] = "unlock")

\* C17: the counter equals the number of invocations that have taken an
\* index; an invocation takes at most one, its idx is the value the counter
\* had, and a finished invocation has taken one exactly when its graph
\* converted and the estimator initialised, the skip path included.
C17_IndexConsumption ==
  /\ s_serial_counter = indexed + (IF Incremented THEN 1 ELSE 0)
  /\ Count(phases, "index") <= 1
  /\ "index" \in Range(phases) => idx[Main] + 1 = s_serial_counter \/ pc[Main] = "idle"
  /\ Finished =>
       /\ ("index" \in Range(phases)) <=> (WellFormed(input) /\ fault # "estimator")
       /\ "check" \in Range(phases) => "index" \in Range(phases)

C17_Witness ==
  /\ Finished /\ phases = SkipPhases /\ indexed = 1 /\ s_serial_counter = 2
  /\ idx[Main] = 1

\* C18: over a GraphDef of n nodes, size() is n and is_end() holds exactly
\* when the cursor is at least n, whatever calls were made; after reset()
\* the iterator is as it was constructed; and the loop started on a fresh
\* or reset iterator reaches get_decoder() only with a cursor below n, has
\* decoded nodes 0 .. cursor-1 in order at each test, and ends having
\* decoded every node of the GraphDef once, in GraphDef order.
C18_Traversal ==
  LET n == Len(m_graph_def.node)
  IN /\ size = n
     /\ is_end <=> node_index >= n
     /\ loop = "fresh" =>
          <<m_graph_def, m_nodes, node_index>> = <<m_graph_def, Construct(m_graph_def), 0>>
     /\ loop = "body" => node_index < n
     /\ loop \in {"test", "body"} => decoded = SubSeq(m_graph_def.node, 1, node_index)
     /\ loop = "step" =>
          /\ node_index < n
          /\ decoded = SubSeq(m_graph_def.node, 1, node_index + 1)
     /\ loop = "end" =>
          /\ node_index = n
          /\ decoded = m_graph_def.node

C18_Witness ==
  /\ loop = "end" /\ Len(m_graph_def.node) = MaxNodes
  /\ decoded = m_graph_def.node /\ node_index = MaxNodes

====
